---- MODULE Spec2Model ----
(***************************************************************************)
(* Batch transaction pipeline of the dice grid page                        *)
(* (packages/nextjs/app/grid/page.tsx): the tile list, runOne (one worker  *)
(* per launched roll), runAll (one instance per invocation), resetTiles    *)
(* and the auto-mode countdown effect.                                     *)
(*                                                                         *)
(* Every await of the source is a position (pc) of a worker or of a run;   *)
(* the code between two awaits is one atomic step, as on the single        *)
(* threaded event loop.  A state update and the re-render with its effects *)
(* are one step.  Functions called from the interval callback see the      *)
(* values of the render in which the effect ran (timer.tiles).             *)
(***************************************************************************)
EXTENDS Integers, Sequences, FiniteSets, TLC

\* ---------------------------------------------------------------- bounds
MaxTiles == 2
MaxCalls == 2
MaxMisses == 1
MaxBalance == 20
MaxRolls == 3
MaxThrows == 2

\* ------------------------------------------------------- program constants
maxAttempts == 60
DefaultBurst == 50
AutoSeconds == 5
MaxCount == 2000
DiceSides == 6
PollDelay == 500
RetryPenalty == 500
\* DiceGame, amounts in units of 0.001 ether
MinBet == 2
PayoutFactor == 6
WinningRoll == 3
\* NeonDiceD6: the default winFace, and the duration of the animation in ms
DefaultWinFace == 3
dur == 1400
\* gas limits, and gas prices in gwei
StaticGas == 180000
StaticGasPrice == 150
FallbackGas == 250000
FallbackGasPrice == 300

\* how long an external call may take, in ms
CallMs == {20, 40}

StartNonces == {0, 42}
BurstSizes == {1, DefaultBurst}

\* error messages, as sequences of words
NonceTooLow == <<"nonce", "too", "low">>
UserRejected == <<"User", "rejected", "the", "request">>
MissingClient == <<"Missing", "publicClient", "or", "txHash">>
NotMined == <<"Transaction", "not", "mined", "after", "60", "attempts">>
RetryFailed == <<"Retry", "failed:">>
Errors == {NonceTooLow, UserRejected}

\* String.prototype.includes("nonce") on a message
IncludesNonce(msg) == \E k \in 1..Len(msg) : msg[k] = "nonce"

\* an optional value: <<>> is undefined, <<v>> is v
Undefined == <<>>
Some(v) == <<v>>
UnknownTx == <<"unknown">>
\* the hash returned by the k-th submission of worker w
TxHash(w, k) == <<w, k>>

\* Number.prototype.toString(16).toUpperCase() for 0..15
HexDigits == <<"0", "1", "2", "3", "4", "5", "6", "7", "8", "9", "A", "B", "C", "D", "E", "F">>
ToHexUpper(n) == HexDigits[n + 1]

Min(a, b) == IF a < b THEN a ELSE b
Max(a, b) == IF a > b THEN a ELSE b

\* ------------------------------------------------------------ tile status
Status(p) ==
  [phase |-> p, rolled |-> "", rollDecimal |-> 0, win |-> FALSE,
   txHash |-> Undefined, error |-> <<>>, latencyMs |-> Undefined]
Idle == Status("idle")
Sent(tx) == [Status("sent") EXCEPT !.txHash = tx]
Mined(r, d, w, tx) ==
  [Status("mined") EXCEPT !.rolled = r, !.rollDecimal = d, !.win = w, !.txHash = tx]
Failed(msg) == [Status("failed") EXCEPT !.error = msg]

Terminal == {"mined", "failed"}

VARIABLES
  tiles,          \* Seq of [id, status]
  running, auto, nextRunIn,
  isSequential, burstSize, publicClient, userAddress,
  timer,          \* the interval armed by the auto effect, with the tiles its closure sees
  runs,           \* one record per runAll invocation
  workers,        \* one record per runOne call
  callsLeft,      \* runAll invocations and resets still to come
  missBudget,     \* receipt queries that may still come back empty
  game,           \* the DiceGame contract: balance, nonce, and its last call
  cachedGasEstimate, \* null, or the gas quote set when a wallet connected
  dice            \* a NeonDiceD6: its props, rollingRef, and the roll under way

vars == <<tiles, running, auto, nextRunIn, isSequential, burstSize, publicClient,
          userAddress, timer, runs, workers, callsLeft, missBudget, game,
          cachedGasEstimate, dice>>
\* what no step of a run or of a worker changes: the settings of the page, the
\* wallet with the gas quote, the storage of the deployed contract, and the die
config == <<isSequential, burstSize, publicClient, userAddress, game, cachedGasEstimate,
            dice>>

\* const staticGasEstimate = { gas: 180000n, gasPrice: parseEther("0.000000150"),
\* timestamp: nowMs() }, the timestamp counted in settings of the quote
StaticQuote(timestamp) ==
  [gas |-> StaticGas, gasPrice |-> StaticGasPrice, timestamp |-> timestamp]

\* getCachedGasEstimate() of a render whose cachedGasEstimate is cache: the
\* cache, or the emergency fallback { gas: 250000n, gasPrice: parseEther("0.000000300") }
getCachedGasEstimate(cache) ==
  IF cache # Undefined
    THEN cache[1]
    ELSE [gas |-> FallbackGas, gasPrice |-> FallbackGasPrice, timestamp |-> 0]

\* Array.from({ length: n }, (_, i) => ({ id: i, status: { phase: "idle" } }))
NewTiles(n) == [k \in 1..n |-> [id |-> k - 1, status |-> Idle]]

\* an update that forgets to compare the id
MutUpdateTile(prev, id, status) ==
  [k \in 1..Len(prev) |-> [prev[k] EXCEPT !.status = status]]

\* an update that adds the tile when no tile has the id
MutUpsertTile(prev, id, status) ==
  IF \E k \in 1..Len(prev) : prev[k].id = id
    THEN [k \in 1..Len(prev) |-> IF prev[k].id = id THEN [prev[k] EXCEPT !.status = status] ELSE prev[k]]
    ELSE Append(prev, [id |-> id, status |-> status])

\* setTiles(prev => prev.map(t => (t.id === id ? { ...t, status } : t)))
updateTile(prev, id, status) ==
  [k \in 1..Len(prev) |-> IF prev[k].id = id THEN [prev[k] EXCEPT !.status = status] ELSE prev[k]]

\* setTiles(prev => prev.map(t => ({ ...t, status: { phase: "idle" } })))
AllIdle(prev) == [k \in 1..Len(prev) |-> [prev[k] EXCEPT !.status = Idle]]

NoTimer == [armed |-> FALSE, seconds |-> 0, tiles |-> <<>>, cache |-> Undefined]

\* the outcome of a call of the contract; before and after are the balance and
\* the nonce it found and left
NoCall ==
  [kind |-> "none", value |-> 0, accepts |-> TRUE, roll |-> 0, events |-> <<>>,
   paid |-> 0, before |-> <<>>, after |-> <<>>]

\* uint256 public nonce = 0; constructor() payable {}
Deployed == [balance |-> 0, nonce |-> 0, last |-> NoCall]

\* const defaultLabels = [1,3,5,2,4,6]
defaultLabels == <<1, 3, 5, 2, 4, 6>>

\* a NeonDiceD6 mounted with props winFace, labels and onResult (given or not):
\* rollingRef.current = false.  calls and accepted count the calls of roll and
\* those that passed its guard; results are the arguments onResult was called
\* with; elapsed is performance.now() - start at the last frame
NewDice(winFace, labels, hasOnResult) ==
  [winFace |-> winFace, labels |-> labels, hasOnResult |-> hasOnResult,
   rolling |-> FALSE, faceIndex |-> 0, label |-> 0, isWin |-> FALSE, elapsed |-> 0,
   calls |-> 0, accepted |-> 0, finished |-> 0, results |-> <<>>, text |-> "Launch"]

\* the page after its first render, the count, the budgets and the die aside
MountedPage ==
  /\ running = FALSE
  /\ auto = FALSE
  /\ nextRunIn = Undefined
  /\ isSequential \in BOOLEAN
  /\ burstSize \in BurstSizes
  /\ publicClient \in BOOLEAN
  /\ userAddress \in BOOLEAN
  /\ cachedGasEstimate = IF userAddress THEN Some(StaticQuote(0)) ELSE Undefined
  /\ timer = NoTimer
  /\ runs = <<>>
  /\ workers = <<>>
  /\ game = Deployed

\* the same with a die in its default props
Mounted ==
  /\ MountedPage
  /\ dice = NewDice(DefaultWinFace, defaultLabels, TRUE)

\* up to MaxTiles tiles and MaxCalls invocations; a receipt query comes back
\* empty once at most (the polling loop in full is the matter of InitWorker)
Init ==
  /\ \E n \in 1..MaxTiles : tiles = NewTiles(n)
  /\ callsLeft = MaxCalls
  /\ missBudget = 1
  /\ Mounted

\* one invocation
InitOnce ==
  /\ \E n \in 1..MaxTiles : tiles = NewTiles(n)
  /\ callsLeft = 1
  /\ missBudget = MaxMisses
  /\ Mounted

\* one tile and three interactions: a run, a reset and a run again
InitReset ==
  /\ tiles = NewTiles(1)
  /\ callsLeft = 3
  /\ missBudget = MaxMisses
  /\ Mounted

\* two tiles and two interactions: a run and a change of the count
InitCount ==
  /\ tiles = NewTiles(2)
  /\ callsLeft = 2
  /\ missBudget = MaxMisses
  /\ Mounted

\* one tile and three interactions: runs, and a wallet that connects or
\* disconnects
InitGas ==
  /\ tiles = NewTiles(1)
  /\ callsLeft = 3
  /\ missBudget = 1
  /\ Mounted

\* the page left alone, and a die mounted with any winFace, with labels that
\* are the default ones, or in order, or all the same, with onResult or without
LabelSets == {defaultLabels, <<1, 2, 3, 4, 5, 6>>, <<3, 3, 3, 3, 3, 3>>}

InitNeon ==
  /\ tiles = NewTiles(1)
  /\ callsLeft = 1
  /\ missBudget = 1
  /\ MountedPage
  /\ ~isSequential
  /\ burstSize = DefaultBurst
  /\ publicClient
  /\ userAddress
  /\ \E winFace \in 1..DiceSides, labels \in LabelSets, hasOnResult \in BOOLEAN :
       dice = NewDice(winFace, labels, hasOnResult)

\* one tile, MaxCalls invocations, by the button or by the timer
InitTimer ==
  /\ tiles = NewTiles(1)
  /\ callsLeft = MaxCalls
  /\ missBudget = 1
  /\ Mounted

\* one tile and one invocation
InitClock ==
  /\ tiles = NewTiles(1)
  /\ callsLeft = 1
  /\ missBudget = MaxMisses
  /\ Mounted

\* the page left alone, in its default settings
InitDice ==
  /\ InitClock
  /\ ~isSequential
  /\ burstSize = DefaultBurst
  /\ publicClient
  /\ userAddress

\* one tile, one invocation, and a chain that may never mine
InitWorker ==
  /\ tiles = NewTiles(1)
  /\ callsLeft = 1
  /\ missBudget = maxAttempts
  /\ Mounted

\* ------------------------------------------------------------------ runOne
\* async function runOne(id, explicitNonce?) up to its first await:
\* updateTile(id, { phase: "queued" }); await delay(10 + Math.random() * 20)
NewWorker(id, r, nonce) ==
  [id |-> id, run |-> r, explicitNonce |-> nonce, pc |-> "queued", attempt |-> 0,
   subs |-> <<>>, caught |-> <<>>, txHash |-> Undefined, receipt |-> FALSE,
   first |-> "pending", decode |-> "none", wrote |-> Status("queued"),
   trace |-> <<"queued">>, sinceStart |-> 0, sinceHash |-> 0, reallocated |-> Undefined,
   cache |-> Undefined, gasEstimate |-> Undefined, gas |-> <<>>]

\* A worker that returned.  What a returned worker did is kept until the next
\* launching runAll and then forgotten: it is a record of the past, not state
\* of the page
Returned(wk) == wk.pc \in {"done", "forgotten"}
Forget(ws) ==
  [w \in 1..Len(ws) |->
     IF ws[w].pc = "done"
       THEN [NewWorker(ws[w].id, ws[w].run, Undefined)
               EXCEPT !.pc = "forgotten", !.wrote = Idle, !.trace = <<>>]
       ELSE ws[w]]

\* a catch that retries whatever the error
MutRetryOn(e) == TRUE

\* if (e?.message?.includes("nonce too low") || e?.message?.includes("nonce"))
RetryOn(e) == IncludesNonce(e)

\* a catch that marks every tile failed
MutCatchTiles(tl, id, e) ==
  IF RetryOn(e) THEN tl ELSE [k \in 1..Len(tl) |-> [tl[k] EXCEPT !.status = Failed(e)]]

\* the catch block of runOne, entered with error message e from the try block:
\* a message that includes "nonce" goes to the retry, any other to failed
CatchWorker(wk, e) ==
  IF RetryOn(e)
    THEN [wk EXCEPT !.pc = "retryDelay", !.caught = Append(@, e)]
    ELSE [wk EXCEPT !.pc = "done", !.caught = Append(@, e), !.wrote = Failed(e),
                    !.trace = Append(@, "failed")]
CatchTiles(tl, id, e) ==
  IF RetryOn(e) THEN tl ELSE updateTile(tl, id, Failed(e))

\* the quote worker w gets from getCachedGasEstimate(), which reads the
\* cachedGasEstimate of the render its runAll belongs to; cached is the
\* cachedGasEstimate of the page at the time of the call
Quoted(w) ==
  [quote |-> getCachedGasEstimate(workers[w].cache), cached |-> cachedGasEstimate]

\* writeDiceGameAsync({ ..., gas: q.gas, gasPrice: q.gasPrice, type: "legacy" })
Submitted(q) ==
  [gas |-> q.quote.gas, gasPrice |-> q.quote.gasPrice, type |-> "legacy", cached |-> q.cached]

\* after delay(10..30): getting-gas, getCachedGasEstimate, building-tx, await delay(50)
GetGas(w) ==
  /\ workers[w].pc = "queued"
  /\ tiles' = updateTile(updateTile(tiles, workers[w].id, Status("getting-gas")),
                         workers[w].id, Status("building-tx"))
  /\ workers' = [workers EXCEPT ![w].pc = "building", ![w].wrote = Status("building-tx"),
                                ![w].trace = @ \o <<"getting-gas", "building-tx">>,
                                ![w].gasEstimate = Some(Quoted(w))]
  /\ UNCHANGED <<running, auto, nextRunIn, config, timer, runs, callsLeft, missBudget>>

\* after delay(50): waiting-approval, submitting, writeDiceGameAsync({..., nonce?})
Submit(w) ==
  /\ workers[w].pc = "building"
  /\ tiles' = updateTile(updateTile(tiles, workers[w].id, Status("waiting-approval")),
                         workers[w].id, Status("submitting"))
  /\ workers' = [workers EXCEPT ![w].pc = "submitting",
                                ![w].subs = Append(@, workers[w].explicitNonce),
                                ![w].gas = Append(@, Submitted(workers[w].gasEstimate[1])),
                                ![w].wrote = Status("submitting"),
                                ![w].trace = @ \o <<"waiting-approval", "submitting">>]
  /\ UNCHANGED <<running, auto, nextRunIn, config, timer, runs, callsLeft, missBudget>>

\* writeDiceGameAsync resolves (with a hash, or with undefined): sent, then the
\* publicClient/txHash check, then the first getTransactionReceipt of the loop
SubmitReturns(w, hasHash) ==
  /\ workers[w].pc = "submitting"
  /\ LET tx == IF hasHash THEN TxHash(w, 1) ELSE Undefined
         shown == IF hasHash THEN tx ELSE UnknownTx
         wk == [workers[w] EXCEPT !.txHash = tx, !.first = "resolved", !.wrote = Sent(shown),
                                  !.trace = Append(@, "sent"),
                                  !.sinceStart = 0, !.sinceHash = 0]
         tl == updateTile(tiles, workers[w].id, Sent(shown))
     IN IF ~publicClient \/ ~hasHash
          THEN /\ workers' = [workers EXCEPT ![w] = CatchWorker(wk, MissingClient)]
               /\ tiles' = CatchTiles(tl, workers[w].id, MissingClient)
          ELSE /\ workers' = [workers EXCEPT ![w] = [wk EXCEPT !.pc = "polling", !.attempt = 1]]
               /\ tiles' = tl
  /\ UNCHANGED <<running, auto, nextRunIn, config, timer, runs, callsLeft, missBudget>>

\* writeDiceGameAsync rejects with message e
SubmitThrows(w, e) ==
  /\ workers[w].pc = "submitting"
  /\ workers' = [workers EXCEPT ![w] = CatchWorker([workers[w] EXCEPT !.first = "rejected"], e)]
  /\ tiles' = CatchTiles(tiles, workers[w].id, e)
  /\ UNCHANGED <<running, auto, nextRunIn, config, timer, runs, callsLeft, missBudget>>

\* getTransactionReceipt returns a receipt after ms: break, await publicClient.getChainId()
PollReceipt(w, ms) ==
  /\ workers[w].pc = "polling"
  /\ workers' = [workers EXCEPT ![w].pc = "chainId", ![w].receipt = TRUE,
                                ![w].sinceStart = @ + ms, ![w].sinceHash = @ + ms]
  /\ UNCHANGED <<tiles, running, auto, nextRunIn, config, timer, runs, callsLeft, missBudget>>

\* a loop that runs once more
MutPollAgain(attempt) == attempt <= maxAttempts + 1

\* the loop condition of the polling loop: attempt <= maxAttempts
PollAgain(attempt) == attempt <= maxAttempts

\* getTransactionReceipt returns nothing or throws after ms: await delay(500),
\* attempt++, then the next query, or past the loop the not-mined error
PollEmpty(w, ms) ==
  /\ workers[w].pc = "polling"
  /\ missBudget > 0
  /\ missBudget' = missBudget - 1
  /\ IF PollAgain(workers[w].attempt + 1)
       THEN /\ workers' = [workers EXCEPT ![w].attempt = @ + 1,
                                          ![w].sinceStart = @ + ms + PollDelay,
                                          ![w].sinceHash = @ + ms + PollDelay]
            /\ tiles' = tiles
       ELSE /\ workers' = [workers EXCEPT ![w] = CatchWorker(workers[w], NotMined)]
            /\ tiles' = CatchTiles(tiles, workers[w].id, NotMined)
  /\ UNCHANGED <<running, auto, nextRunIn, config, timer, runs, callsLeft>>

\* const win = rollDecimal <= 5
IsWin(rollDecimal) == rollDecimal <= 5

\* a worker that fails the tile when it finds no Roll event
MutDecoded(hasAbi, roll, tx) ==
  IF hasAbi /\ roll > 0
    THEN Mined(ToHexUpper(roll), roll, IsWin(roll), tx)
    ELSE Failed(<<"Roll", "event", "not", "found">>)

\* the status written once the receipt is in hand: the decoded Roll event when
\* the chain has a contract config and a log decodes as Roll (roll > 0 here),
\* the "?" fallback otherwise
Decoded(hasAbi, roll, tx) ==
  IF hasAbi /\ roll > 0
    THEN Mined(ToHexUpper(roll), roll, IsWin(roll), tx)
    ELSE Mined("?", 0, FALSE, tx)

\* getChainId resolves after ms; deployedContracts[chainId]?.DiceGame has an abi
\* or not; roll is the roll of the Roll log of the receipt, 0 when no log decodes
\* as Roll; latencyMs: nowMs() - blockchainStartTime
ChainIdReturns(w, hasAbi, roll, ms) ==
  /\ workers[w].pc = "chainId"
  /\ LET st == [Decoded(hasAbi, roll, workers[w].txHash)
                 EXCEPT !.latencyMs = Some(workers[w].sinceStart + ms)]
     IN /\ workers' = [workers EXCEPT ![w].pc = "done", ![w].wrote = st,
                                      ![w].decode = IF hasAbi /\ roll > 0 THEN "roll" ELSE "none found",
                                      ![w].trace = Append(@, "mined"),
                                      ![w].sinceStart = @ + ms, ![w].sinceHash = @ + ms]
        /\ tiles' = updateTile(tiles, workers[w].id, st)
  /\ UNCHANGED <<running, auto, nextRunIn, config, timer, runs, callsLeft, missBudget>>

\* getChainId rejects with message e: the same catch block
ChainIdThrows(w, e) ==
  /\ workers[w].pc = "chainId"
  /\ workers' = [workers EXCEPT ![w] = CatchWorker(workers[w], e)]
  /\ tiles' = CatchTiles(tiles, workers[w].id, e)
  /\ UNCHANGED <<running, auto, nextRunIn, config, timer, runs, callsLeft, missBudget>>

\* a retry that passes the explicit nonce again
MutRetry(w) ==
  /\ workers[w].pc = "retryDelay"
  /\ workers' = [workers EXCEPT ![w].pc = "retrySubmitting",
                                ![w].subs = Append(@, workers[w].explicitNonce)]
  /\ UNCHANGED <<tiles, running, auto, nextRunIn, config, timer, runs, callsLeft, missBudget>>

\* a retry that reads the transaction count again
MutRetryReads(w) ==
  /\ workers[w].pc = "retryDelay"
  /\ workers' = [workers EXCEPT ![w].pc = "retrySubmitting", ![w].subs = Append(@, Undefined)]
  /\ runs' = [runs EXCEPT ![workers[w].run].reads = @ + 1]
  /\ UNCHANGED <<tiles, running, auto, nextRunIn, config, timer, callsLeft, missBudget>>

\* after delay(200..500): getCachedGasEstimate, writeDiceGameAsync without nonce
Retry(w) ==
  /\ workers[w].pc = "retryDelay"
  /\ workers' = [workers EXCEPT ![w].pc = "retrySubmitting", ![w].subs = Append(@, Undefined),
                                ![w].gas = Append(@, Submitted(Quoted(w))),
                                ![w].sinceStart = 0]
  /\ UNCHANGED <<tiles, running, auto, nextRunIn, config, timer, runs, callsLeft, missBudget>>

\* the retry resolves after ms: sent, then mined "R" at once, with
\* latencyMs: nowMs() - retryStartTime + 500
RetryReturns(w, hasHash, ms) ==
  /\ workers[w].pc = "retrySubmitting"
  /\ LET tx == IF hasHash THEN TxHash(w, 2) ELSE UnknownTx
         st == [Mined("R", -1, FALSE, tx)
                 EXCEPT !.latencyMs = Some(workers[w].sinceStart + ms + RetryPenalty)]
     IN /\ workers' = [workers EXCEPT ![w].pc = "done", ![w].wrote = st,
                                      ![w].txHash = IF hasHash THEN tx ELSE Undefined,
                                      ![w].trace = @ \o <<"sent", "mined">>,
                                      ![w].sinceStart = @ + ms, ![w].sinceHash = 0]
        /\ tiles' = updateTile(updateTile(tiles, workers[w].id, Sent(tx)), workers[w].id, st)
  /\ UNCHANGED <<running, auto, nextRunIn, config, timer, runs, callsLeft, missBudget>>

\* a retry whose catch does not return: the outer failed is written as well
MutRetryThrows(w, e) ==
  /\ workers[w].pc = "retrySubmitting"
  /\ LET st == Failed(workers[w].caught[Len(workers[w].caught)])
     IN /\ workers' = [workers EXCEPT ![w].pc = "done", ![w].wrote = st,
                                      ![w].caught = Append(@, e),
                                      ![w].trace = @ \o <<"failed", "failed">>]
        /\ tiles' = updateTile(updateTile(tiles, workers[w].id, Failed(RetryFailed \o e)),
                               workers[w].id, st)
  /\ UNCHANGED <<running, auto, nextRunIn, config, timer, runs, callsLeft, missBudget>>

\* the retry rejects with message e: failed "Retry failed: ..."
RetryThrows(w, e) ==
  /\ workers[w].pc = "retrySubmitting"
  /\ LET st == Failed(RetryFailed \o e)
     IN /\ workers' = [workers EXCEPT ![w].pc = "done", ![w].wrote = st,
                                      ![w].caught = Append(@, e),
                                      ![w].trace = Append(@, "failed")]
        /\ tiles' = updateTile(tiles, workers[w].id, st)
  /\ UNCHANGED <<running, auto, nextRunIn, config, timer, runs, callsLeft, missBudget>>

\* --------------------------------------------------------- auto mode effect
\* an effect without "if (running) return": it arms the interval during a run
MutAutoEffect(a, r, tl) ==
  IF a THEN [armed |-> TRUE, seconds |-> AutoSeconds, tiles |-> tl, cache |-> cachedGasEstimate]
  ELSE NoTimer

\* useEffect(..., [auto, running]) when a dependency changed: the cleanup clears
\* the old interval; with auto on and no run in flight a new interval is armed,
\* and its callback closes over the runAll (and so the tiles and the gas quote)
\* of this render
AutoEffect(a, r, tl) ==
  IF a /\ ~r
    THEN [armed |-> TRUE, seconds |-> AutoSeconds, tiles |-> tl, cache |-> cachedGasEstimate]
    ELSE NoTimer

\* the displayed countdown after the effect ran
AutoNextRunIn(a, r, cur) ==
  IF ~a THEN Undefined ELSE IF r THEN cur ELSE Some(AutoSeconds)

\* timer and nextRunIn after a step that leaves auto a1 and running r1 over tiles
\* tl; tm and nri are what the step itself left of the interval and the display
Rerender(a1, r1, tl, tm, nri) ==
  IF a1 = auto /\ r1 = running
    THEN /\ timer' = tm
         /\ nextRunIn' = nri
    ELSE /\ timer' = AutoEffect(a1, r1, tl)
         /\ nextRunIn' = AutoNextRunIn(a1, r1, nri)

\* ------------------------------------------------------------------ runAll
NewRun(src, mode, pc, queue, i, recycled) ==
  [src |-> src, mode |-> mode, pc |-> pc, queue |-> queue, i |-> i,
   currentNonce |-> Undefined, recycled |-> recycled, reads |-> 0, disturbed |-> FALSE,
   cache |-> Undefined]

IsIdle(t) == t.status.phase = "idle"

\* tiles.filter(t => t.status.phase === "idle").slice(0, burstSize)
activeTiles(ct) == SubSeq(SelectSeq(ct, IsIdle), 1, Min(burstSize, Len(SelectSeq(ct, IsIdle))))

\* tiles.every(t => t.status.phase === "mined")
allMined(ct) == \A k \in 1..Len(ct) : ct[k].status.phase = "mined"

\* an auto-reset taken whenever no tile is idle
MutRecycles(ct) == Len(activeTiles(ct)) = 0 /\ Len(ct) > 0

\* the auto-reset branch is taken
Recycles(ct) == Len(activeTiles(ct)) = 0 /\ allMined(ct) /\ Len(ct) > 0

\* a queue in descending id order
MutQueue(ct) ==
  IF Recycles(ct)
    THEN [k \in 1..Min(burstSize, Len(ct)) |-> Min(burstSize, Len(ct)) - k]
    ELSE [k \in 1..Len(activeTiles(ct)) |-> activeTiles(ct)[Len(activeTiles(ct)) + 1 - k].id]

\* the ids to process: activeTiles.map(t => t.id), or in the auto-reset branch
\* Array.from({ length: Math.min(burstSize, tiles.length) }, (_, i) => ({ id: i }))
Queue(ct) ==
  IF Recycles(ct)
    THEN [k \in 1..Min(burstSize, Len(ct)) |-> k - 1]
    ELSE [k \in 1..Len(activeTiles(ct)) |-> activeTiles(ct)[k].id]

\* the record of a run that returned is forgotten with those of the workers
ForgetRuns(rs) ==
  [r \in 1..Len(rs) |->
     IF rs[r].pc = "done" /\ rs[r].mode \notin {"skipped", "empty"}
       THEN NewRun(rs[r].src, rs[r].mode, "done", <<>>, 0, FALSE)
       ELSE rs[r]]

\* the workers launched so far by run r, in launch order
WorkersOf(r) == SelectSeq([w \in 1..Len(workers) |-> w], LAMBDA w : workers[w].run = r)
LastOf(r) == WorkersOf(r)[Len(WorkersOf(r))]

\* a runAll without its guard
MutGuarded(crunning) == FALSE

\* if (running) return, seen through the closure of the caller
Guarded(crunning) == crunning

\* runAll() from its call to its first await.  ct, crunning and cc are the
\* tiles, the running flag and the cachedGasEstimate of the render the called
\* runAll belongs to; tm and nri are the interval and the display as the caller
\* left them
Invoke(src, ct, crunning, cc, tm, nri) ==
  LET r == Len(runs) + 1
      queue == Queue(ct)
      base == IF Recycles(ct) THEN AllIdle(tiles) ELSE tiles
  IN /\ UNCHANGED <<auto, config, missBudget>>
     /\ callsLeft' = callsLeft - 1
     /\ IF Guarded(crunning)
          THEN /\ runs' = Append(runs, NewRun(src, "skipped", "done", <<>>, 0, FALSE))
               /\ timer' = tm
               /\ nextRunIn' = nri
               /\ UNCHANGED <<tiles, running, workers>>
        ELSE IF Len(queue) = 0
          THEN \* setRunning(true) ... setRunning(false); return
               /\ runs' = Append(runs, NewRun(src, "empty", "done", <<>>, 0, FALSE))
               /\ running' = FALSE
               /\ Rerender(auto, FALSE, tiles, tm, nri)
               /\ UNCHANGED <<tiles, workers>>
        ELSE IF isSequential
          THEN \* for (const id of queue) { await runOne(id); ...
               /\ runs' = Append(ForgetRuns(runs), [NewRun(src, "sequential", "seqAwait", queue, 1, Recycles(ct))
                                                      EXCEPT !.cache = cc])
               /\ workers' = Append(Forget(workers), [NewWorker(queue[1], r, Undefined) EXCEPT !.cache = cc])
               /\ tiles' = updateTile(base, queue[1], Status("queued"))
               /\ running' = TRUE
               /\ Rerender(auto, TRUE, tiles', tm, nri)
        ELSE IF publicClient /\ userAddress
          THEN \* await publicClient.getTransactionCount({ address: userAddress })
               /\ runs' = Append(ForgetRuns(runs), [NewRun(src, "batch", "nonceRead", queue, 0, Recycles(ct))
                                                      EXCEPT !.reads = 1, !.cache = cc])
               /\ workers' = Forget(workers)
               /\ tiles' = base
               /\ running' = TRUE
               /\ Rerender(auto, TRUE, tiles', tm, nri)
          ELSE \* for (const id of queue) { runOne(id); await delay(150); }
               /\ runs' = Append(ForgetRuns(runs), [NewRun(src, "noaddress", "fbDelay", queue, 1, Recycles(ct))
                                                      EXCEPT !.cache = cc])
               /\ workers' = Append(Forget(workers), [NewWorker(queue[1], r, Undefined) EXCEPT !.cache = cc])
               /\ tiles' = updateTile(base, queue[1], Status("queued"))
               /\ running' = TRUE
               /\ Rerender(auto, TRUE, tiles', tm, nri)

\* runAll called from the page (the Lancer button's onClick is the runAll of the
\* latest render)
RunAll ==
  /\ callsLeft > 0
  /\ Invoke("call", tiles, running, cachedGasEstimate, timer, nextRunIn)

\* a run that returns without clearing the flag
MutFinish(r) ==
  /\ runs' = [runs EXCEPT ![r].pc = "done"]
  /\ UNCHANGED <<tiles, running, workers, auto, nextRunIn, timer, config, callsLeft, missBudget>>

\* setRunning(false) at the end of a run
Finish(r) ==
  /\ runs' = [runs EXCEPT ![r].pc = "done"]
  /\ running' = FALSE
  /\ Rerender(auto, FALSE, tiles, timer, nextRunIn)
  /\ UNCHANGED <<tiles, workers, auto, config, callsLeft, missBudget>>

\* runOne(id, nonce) called by run r: a new worker, its tile queued
Launch(r, id, nonce) ==
  /\ workers' = Append(workers, [NewWorker(id, r, nonce) EXCEPT !.cache = runs[r].cache])
  /\ tiles' = updateTile(tiles, id, Status("queued"))

\* every worker given the count itself
MutExplicitNonce(currentNonce, i) == currentNonce

\* const explicitNonce = currentNonce + i
ExplicitNonce(currentNonce, i) == currentNonce + i

\* getTransactionCount resolves with n: the first runOne(id, n + 0), then
\* await delay(50) when more are to come, else await Promise.all(promises)
NonceReturns(r, n) ==
  /\ runs[r].pc = "nonceRead"
  /\ Launch(r, runs[r].queue[1], Some(ExplicitNonce(n, 0)))
  /\ runs' = [runs EXCEPT ![r].currentNonce = Some(n), ![r].i = 1,
                          ![r].pc = IF Len(runs[r].queue) > 1 THEN "stagger" ELSE "awaitAll"]
  /\ UNCHANGED <<running, auto, nextRunIn, config, timer, callsLeft, missBudget>>

\* a catch that gives the run up
MutNonceThrows(r) ==
  /\ runs[r].pc = "nonceRead"
  /\ runs' = [runs EXCEPT ![r].mode = "noncefail", ![r].pc = "done"]
  /\ running' = FALSE
  /\ Rerender(auto, FALSE, tiles, timer, nextRunIn)
  /\ UNCHANGED <<tiles, workers, auto, config, callsLeft, missBudget>>

\* getTransactionCount rejects: catch, for (const id of queue) { await runOne(id); ...
NonceThrows(r) ==
  /\ runs[r].pc = "nonceRead"
  /\ Launch(r, runs[r].queue[1], Undefined)
  /\ runs' = [runs EXCEPT ![r].mode = "noncefail", ![r].i = 1, ![r].pc = "seqAwait"]
  /\ UNCHANGED <<running, auto, nextRunIn, config, timer, callsLeft, missBudget>>

\* after delay(50): the next runOne(id, currentNonce + i).  The worker launched
\* 50 ms earlier has left its delay of at most 30 ms
Stagger(r) ==
  /\ runs[r].pc = "stagger"
  /\ workers[LastOf(r)].pc # "queued"
  /\ Launch(r, runs[r].queue[runs[r].i + 1],
            Some(ExplicitNonce(runs[r].currentNonce[1], runs[r].i)))
  /\ runs' = [runs EXCEPT ![r].i = @ + 1,
                          ![r].pc = IF runs[r].i + 1 < Len(runs[r].queue) THEN "stagger" ELSE "awaitAll"]
  /\ UNCHANGED <<running, auto, nextRunIn, config, timer, callsLeft, missBudget>>

\* await Promise.all(promises) resolves once every runOne of the run returned
AwaitAll(r) ==
  /\ runs[r].pc = "awaitAll"
  /\ \A k \in 1..Len(WorkersOf(r)) : Returned(workers[WorkersOf(r)[k]])
  /\ Finish(r)

\* await runOne(id) resolves: await delay(100)
SeqAwait(r) ==
  /\ runs[r].pc = "seqAwait"
  /\ Returned(workers[LastOf(r)])
  /\ runs' = [runs EXCEPT ![r].pc = "seqDelay"]
  /\ UNCHANGED <<tiles, running, auto, nextRunIn, config, timer, workers, callsLeft, missBudget>>

\* after delay(100): the next await runOne(id), or past the loop setRunning(false)
SeqDelay(r) ==
  /\ runs[r].pc = "seqDelay"
  /\ IF runs[r].i < Len(runs[r].queue)
       THEN /\ Launch(r, runs[r].queue[runs[r].i + 1], Undefined)
            /\ runs' = [runs EXCEPT ![r].i = @ + 1, ![r].pc = "seqAwait"]
            /\ UNCHANGED <<running, auto, nextRunIn, config, timer, callsLeft, missBudget>>
       ELSE Finish(r)

\* after delay(150): the next runOne(id), not awaited, or past the loop
\* setRunning(false); return.  The worker launched 150 ms earlier has left its
\* delays of at most 30 ms and 50 ms
FbDelay(r) ==
  /\ runs[r].pc = "fbDelay"
  /\ workers[LastOf(r)].pc \notin {"queued", "building"}
  /\ IF runs[r].i < Len(runs[r].queue)
       THEN /\ Launch(r, runs[r].queue[runs[r].i + 1], Undefined)
            /\ runs' = [runs EXCEPT ![r].i = @ + 1]
            /\ UNCHANGED <<running, auto, nextRunIn, config, timer, callsLeft, missBudget>>
       ELSE Finish(r)

\* ------------------------------------------------------- page interactions
\* Math.max(1, Math.min(2000, Number(e.target.value) || 1))
CountOf(v) == Max(1, Min(MaxCount, IF v = 0 THEN 1 ELSE v))

\* a change of the count that keeps the status of the tiles that stay
MutSetCount(v) ==
  /\ callsLeft > 0
  /\ CountOf(v) # Len(tiles)
  /\ callsLeft' = callsLeft - 1
  /\ tiles' = [k \in 1..CountOf(v) |-> IF k <= Len(tiles) THEN tiles[k] ELSE NewTiles(CountOf(v))[k]]
  /\ workers' = [w \in 1..Len(workers) |->
                   IF Returned(workers[w]) THEN workers[w]
                   ELSE [workers[w] EXCEPT !.reallocated = Some(Len(workers[w].trace))]]
  /\ runs' = [r \in 1..Len(runs) |->
                IF runs[r].pc # "done" THEN [runs[r] EXCEPT !.disturbed = TRUE] ELSE runs[r]]
  /\ UNCHANGED <<running, auto, nextRunIn, timer, config, missBudget>>

\* the count input's onChange, setCount(...), and the effect on [count] of the
\* render that follows: the tiles are created anew.  Each worker in flight
\* keeps, as a record of the past, how many phases it had written by then
SetCount(v) ==
  /\ callsLeft > 0
  /\ CountOf(v) # Len(tiles)
  /\ callsLeft' = callsLeft - 1
  /\ tiles' = NewTiles(CountOf(v))
  /\ workers' = [w \in 1..Len(workers) |->
                   IF Returned(workers[w]) THEN workers[w]
                   ELSE [workers[w] EXCEPT !.reallocated = Some(Len(workers[w].trace))]]
  /\ runs' = [r \in 1..Len(runs) |->
                IF runs[r].pc # "done" THEN [runs[r] EXCEPT !.disturbed = TRUE] ELSE runs[r]]
  /\ UNCHANGED <<running, auto, nextRunIn, timer, config, missBudget>>

\* useAccount() returns another address, or none, and the effect on
\* [userAddress] runs: with an address it sets the static quote anew, without
\* one it leaves the cache as it is.  Runs and workers in flight keep the
\* closures of their render
WalletChanges ==
  /\ callsLeft > 0
  /\ callsLeft' = callsLeft - 1
  /\ userAddress' = ~userAddress
  /\ cachedGasEstimate' =
       IF ~userAddress'
         THEN cachedGasEstimate
       ELSE IF cachedGasEstimate = Undefined
         THEN Some(StaticQuote(0))
         ELSE Some(StaticQuote(cachedGasEstimate[1].timestamp + 1))
  /\ UNCHANGED <<tiles, running, auto, nextRunIn, isSequential, burstSize, publicClient,
                 timer, runs, workers, missBudget, game, dice>>

\* a reset that cancels the workers in flight
MutResetTiles ==
  /\ callsLeft > 0
  /\ callsLeft' = callsLeft - 1
  /\ tiles' = AllIdle(tiles)
  /\ running' = FALSE
  /\ workers' = [w \in 1..Len(workers) |->
                   IF Returned(workers[w]) THEN workers[w] ELSE [workers[w] EXCEPT !.pc = "done"]]
  /\ runs' = [r \in 1..Len(runs) |->
                IF runs[r].pc # "done" THEN [runs[r] EXCEPT !.disturbed = TRUE] ELSE runs[r]]
  /\ Rerender(auto, FALSE, tiles', timer, nextRunIn)
  /\ UNCHANGED <<auto, config, missBudget>>

\* resetTiles(): every tile idle, setRunning(false); runs in flight go on
resetTiles ==
  /\ callsLeft > 0
  /\ callsLeft' = callsLeft - 1
  /\ tiles' = AllIdle(tiles)
  /\ running' = FALSE
  /\ runs' = [r \in 1..Len(runs) |->
                IF runs[r].pc # "done" THEN [runs[r] EXCEPT !.disturbed = TRUE] ELSE runs[r]]
  /\ Rerender(auto, FALSE, tiles', timer, nextRunIn)
  /\ UNCHANGED <<auto, config, workers, missBudget>>

\* setAuto(v => !v)
ToggleAuto ==
  /\ auto' = ~auto
  /\ Rerender(auto', running, tiles, timer, nextRunIn)
  /\ UNCHANGED <<tiles, running, config, runs, workers, callsLeft, missBudget>>

\* the setInterval callback: seconds -= 1; setNextRunIn(seconds);
\* if (seconds <= 0) { clearInterval(timer); runAll(); }
\* The runAll called is the one of the render in which the effect ran: its
\* running is false (the effect returns early otherwise), its tiles timer.tiles
Tick ==
  /\ timer.armed
  /\ IF timer.seconds - 1 <= 0
       THEN /\ callsLeft > 0
            /\ Invoke("timer", timer.tiles, FALSE, timer.cache, NoTimer, Some(timer.seconds - 1))
       ELSE /\ timer' = [timer EXCEPT !.seconds = @ - 1]
            /\ nextRunIn' = Some(timer.seconds - 1)
            /\ UNCHANGED <<tiles, running, auto, config, runs, workers, callsLeft, missBudget>>

\* ----------------------------------------------------------------- DiceGame
\* a die with a face 0
MutDiceRoll(hash) == hash % (DiceSides + 1)

\* uint256 roll = (uint256(hash) % 6) + 1
DiceRoll(hash) == (hash % DiceSides) + 1

\* the rule of the README: 0 to 5 win
MutDiceWins(roll) == roll <= 5

\* if (roll == 3)
DiceWins(roll) == roll = WinningRoll

RollEvent(amount, roll) == [name |-> "Roll", amount |-> amount, roll |-> roll]
WinnerEvent(amount) == [name |-> "Winner", amount |-> amount, roll |-> 0]

\* a revert that keeps the nonce++ made before it
MutReverted(pre, call, reason) ==
  [pre EXCEPT !.nonce = IF call.value < MinBet THEN @ ELSE @ + 1,
              !.last = [call EXCEPT !.kind = reason]]

\* revert NotEnoughEther() and require(sent, "Failed to send Ether"): the
\* storage is that of before the call, pre; only the outcome is on record
Reverted(pre, call, reason) == [pre EXCEPT !.last = [call EXCEPT !.kind = reason]]

\* rollTheDice() called with msg.value = value by a caller that accepts ether
\* or not; hash is keccak256(prevHash, address(this), nonce).  A revert undoes
\* the transfer of value, the nonce and the events
rollTheDice(value, hash, accepts) ==
  LET roll == DiceRoll(hash)
      amount == value * PayoutFactor
      held == game.balance + value
      call == [NoCall EXCEPT !.value = value, !.accepts = accepts,
                             !.before = <<game.balance, game.nonce>>,
                             !.after = <<game.balance, game.nonce>>]
  IN /\ game.nonce < MaxRolls
     /\ held <= MaxBalance
     /\ game' =
          IF value < MinBet
            THEN Reverted(game, call, "NotEnoughEther")
          ELSE IF ~DiceWins(roll)
            THEN [balance |-> held, nonce |-> game.nonce + 1,
                  last |-> [call EXCEPT !.kind = "ok", !.roll = roll,
                                        !.events = <<RollEvent(value, roll)>>,
                                        !.after = <<held, game.nonce + 1>>]]
          ELSE IF amount <= held /\ accepts
            THEN [balance |-> held - amount, nonce |-> game.nonce + 1,
                  last |-> [call EXCEPT !.kind = "ok", !.roll = roll, !.paid = amount,
                                        !.events = <<RollEvent(value, roll), WinnerEvent(amount)>>,
                                        !.after = <<held - amount, game.nonce + 1>>]]
            ELSE Reverted(game, call, "Failed to send Ether")
     /\ UNCHANGED <<tiles, running, auto, nextRunIn, isSequential, burstSize, publicClient,
                    userAddress, timer, runs, workers, callsLeft, missBudget,
                    cachedGasEstimate, dice>>

\* receive() external payable {}
receive(value) ==
  /\ game.balance + value <= MaxBalance
  /\ game' = [game EXCEPT !.balance = @ + value]
  /\ UNCHANGED <<tiles, running, auto, nextRunIn, isSequential, burstSize, publicClient,
                 userAddress, timer, runs, workers, callsLeft, missBudget,
                 cachedGasEstimate, dice>>

\* --------------------------------------------------------------- NeonDiceD6
\* a roll that never looks at rollingRef
MutReentered(rolling) == FALSE

\* if(rollingRef.current) return
Reentered(rolling) == rolling

\* const isWin = label === winFace
FaceWins(label, winFace) == label = winFace

\* roll(), Math.floor(Math.random()*6) giving faceIndex: behind the guard it
\* sets rollingRef, picks the face and asks for the first frame
rollDie(faceIndex) ==
  /\ dice.calls < MaxThrows
  /\ dice' =
       IF Reentered(dice.rolling)
         THEN [dice EXCEPT !.calls = @ + 1]
         ELSE [dice EXCEPT !.calls = @ + 1, !.accepted = @ + 1, !.rolling = TRUE,
                           !.faceIndex = faceIndex, !.label = dice.labels[faceIndex + 1],
                           !.isWin = FaceWins(dice.labels[faceIndex + 1], dice.winFace),
                           !.elapsed = 0, !.text = "Rolling..."]
  /\ UNCHANGED <<tiles, running, auto, nextRunIn, isSequential, burstSize, publicClient,
                 userAddress, timer, runs, workers, callsLeft, missBudget, game,
                 cachedGasEstimate>>

\* step(), a frame of the animation ms after the one before:
\* t = Math.min((performance.now()-start)/dur, 1); if (t<1) the next frame is
\* asked for, else rollingRef.current=false; onResult?.({faceIndex,label,isWin})
step(ms) ==
  /\ dice.rolling
  /\ dice' =
       IF dice.elapsed + ms < dur
         THEN [dice EXCEPT !.elapsed = @ + ms]
         ELSE [dice EXCEPT !.elapsed = @ + ms, !.rolling = FALSE, !.finished = @ + 1,
                           !.text = IF dice.isWin THEN "Win!" ELSE "Lose",
                           !.results = IF dice.hasOnResult
                                         THEN Append(@, [faceIndex |-> dice.faceIndex,
                                                         label |-> dice.label,
                                                         isWin |-> dice.isWin])
                                         ELSE @]
  /\ UNCHANGED <<tiles, running, auto, nextRunIn, isSequential, burstSize, publicClient,
                 userAddress, timer, runs, workers, callsLeft, missBudget, game,
                 cachedGasEstimate>>

\* ----------------------------------------------------------------- TileCard
\* phase === "mined" && st.rolled === "?" && st.rollDecimal === -1
isWaitingForRealResult(st) ==
  st.phase = "mined" /\ st.rolled = "?" /\ st.rollDecimal = -1

\* ------------------------------------------------------------ specification
\* the steps of the workers, the outside world answering from the given sets
\* after one of the given times
TimedWorkerStep(errors, hashes, abis, rolls, times) ==
  \E w \in 1..Len(workers) :
    \/ GetGas(w)
    \/ Submit(w)
    \/ \E hasHash \in hashes : SubmitReturns(w, hasHash)
    \/ \E e \in errors : SubmitThrows(w, e)
    \/ \E ms \in times : PollReceipt(w, ms)
    \/ \E ms \in times : PollEmpty(w, ms)
    \/ \E hasAbi \in abis, roll \in rolls, ms \in times : ChainIdReturns(w, hasAbi, roll, ms)
    \/ \E e \in errors : ChainIdThrows(w, e)
    \/ Retry(w)
    \/ \E hasHash \in hashes, ms \in times : RetryReturns(w, hasHash, ms)
    \/ \E e \in errors : RetryThrows(w, e)

\* the same with every external call taking the same time
WorkerStep(errors, hashes, abis, rolls) ==
  TimedWorkerStep(errors, hashes, abis, rolls, {20})

RunStep ==
  \E r \in 1..Len(runs) :
    \/ \E n \in StartNonces : NonceReturns(r, n)
    \/ NonceThrows(r)
    \/ AwaitAll(r)
    \/ SeqAwait(r)
    \/ SeqDelay(r)
    \/ FbDelay(r)

\* the rolls a receipt can carry: 1..6, and 0 for a receipt without a Roll log
Rolls == 0..DiceSides

\* Runs, resets and workers in every interleaving; the chain answers with a win
\* or with no decodable roll
NextLaunch == \E r \in 1..Len(runs) : Stagger(r)

\* Runs and workers in every interleaving; the chain answers with a win or with
\* no decodable roll
Next ==
  \/ RunAll
  \/ WorkerStep(Errors, {TRUE}, {TRUE}, {0, 3})
  \/ RunStep
  \/ NextLaunch

Spec == Init /\ [][Next]_vars

\* Timers fire and every external call returns or throws in the end: a step of
\* a worker or of a run that can be taken is taken
Progress ==
  \/ WorkerStep(Errors, {TRUE}, {TRUE}, {0, 3})
  \/ RunStep
  \/ NextLaunch

SpecFair == (InitOnce \/ InitWorker) /\ [][Next]_vars /\ WF_vars(Progress)

\* The same with auto mode
NextAuto ==
  \/ Next
  \/ ToggleAuto
  \/ Tick

SpecAuto == Init /\ [][NextAuto]_vars

\* The die alone: rolls on any face, frames that come early or late.  A frame
\* that was asked for comes in the end
FrameMs == {500, 900}

NeonRolls == \E faceIndex \in 0..(DiceSides - 1) : rollDie(faceIndex)
NeonFrames == \E ms \in FrameMs : step(ms)

NextNeon ==
  \/ NeonRolls
  \/ NeonFrames

SpecNeon == InitNeon /\ [][NextNeon]_vars /\ WF_vars(NeonFrames)

\* Runs and workers while the wallet connects and disconnects
NextGas ==
  \/ RunAll
  \/ WorkerStep(Errors, {TRUE}, {TRUE}, {0, 3})
  \/ RunStep
  \/ WalletChanges

SpecGas == InitGas /\ [][NextGas]_vars

\* Auto mode over one tile (a run over one tile launches its worker at once)
NextTimer ==
  \/ RunAll
  \/ WorkerStep(Errors, {TRUE}, {TRUE}, {0, 3})
  \/ RunStep
  \/ ToggleAuto
  \/ Tick

SpecTimer == InitTimer /\ [][NextTimer]_vars

\* Runs, resets and workers in every interleaving
NextReset ==
  \/ RunAll
  \/ WorkerStep(Errors, {TRUE}, {TRUE}, {0, 3})
  \/ RunStep
  \/ resetTiles

SpecReset == InitReset /\ [][NextReset]_vars

\* Runs, workers, resets and changes of the count in every interleaving; the
\* input is emptied or set to one or two
Counts == 0..2

\* every step of the page that is not a change of the count
NextKeep ==
  \/ RunAll
  \/ WorkerStep(Errors, {TRUE}, {TRUE}, {0, 3})
  \/ RunStep
  \/ NextLaunch
  \/ resetTiles

NextCount ==
  \/ NextKeep
  \/ \E v \in Counts : SetCount(v)

SpecCount == InitCount /\ [][NextCount]_vars

\* One worker, external calls of varying duration
NextClock ==
  \/ RunAll
  \/ TimedWorkerStep(Errors, BOOLEAN, {TRUE}, {0, 3}, CallMs)
  \/ RunStep

SpecClock == InitClock /\ [][NextClock]_vars

\* The contract alone: bets below, at and above the minimum, every residue of
\* the hash, callers that accept the prize or refuse it
Bets == (MinBet - 1)..(MinBet + 1)
Hashes == 0..(2 * DiceSides - 1)

RollStep == \E value \in Bets, hash \in Hashes, accepts \in BOOLEAN : rollTheDice(value, hash, accepts)
FundStep == \E value \in {1, PayoutFactor} : receive(value)

NextDice ==
  \/ RollStep
  \/ FundStep

SpecDice == InitDice /\ [][NextDice]_vars

\* One worker, every answer of the outside world
NextWorker ==
  \/ RunAll
  \/ WorkerStep(Errors, BOOLEAN, BOOLEAN, Rolls)
  \/ RunStep

SpecWorker == InitWorker /\ [][NextWorker]_vars

\* ------------------------------------------------------------------ claims
TileOf(id) == tiles[id + 1]
Live(w) == workers[w].pc # "forgotten"
Launching == {"sequential", "batch", "noaddress", "noncefail"}

\* C1: at the step in which a run that launched workers, and saw no reset, clears
\* the running flag, every tile of its queue is mined or failed.
C1_SettledWhenRunningClears ==
  [][\A r \in 1..Len(runs) :
       (/\ runs[r].pc # "done"
        /\ runs'[r].pc = "done"
        /\ runs[r].mode \in Launching
        /\ ~runs[r].disturbed)
       => \A k \in 1..Len(runs[r].queue) :
            tiles'[runs[r].queue[k] + 1].status.phase \in Terminal]_vars

\* C2: every tile mined with a decoded roll 1..6 has win exactly when the roll
\* is 3, the roll the contract pays.
C2_WinIffThree ==
  \A k \in 1..Len(tiles) :
    (tiles[k].status.phase = "mined" /\ tiles[k].status.rollDecimal \in 1..DiceSides)
    => (tiles[k].status.win <=> tiles[k].status.rollDecimal = 3)

\* C3: in a run that read the transaction count, the worker launched i-th
\* (i from 0) was given, and first submits with, the count plus i; so no two
\* workers of the run share an explicit nonce.
C3_NonceIsStartPlusIndex ==
  \A r \in 1..Len(runs) :
    runs[r].currentNonce # Undefined =>
      \A k \in 1..Len(WorkersOf(r)) :
        LET w == WorkersOf(r)[k] IN
        Live(w) =>
          /\ workers[w].explicitNonce = Some(runs[r].currentNonce[1] + (k - 1))
          /\ Len(workers[w].subs) >= 1 => workers[w].subs[1] = workers[w].explicitNonce
          /\ \A j \in 1..Len(WorkersOf(r)) :
               (j # k /\ Live(WorkersOf(r)[j]))
               => workers[WorkersOf(r)[j]].explicitNonce # workers[w].explicitNonce

C3_Witness ==
  \E r \in 1..Len(runs) :
    /\ runs[r].currentNonce = Some(42)
    /\ Len(WorkersOf(r)) = 2
    /\ workers[WorkersOf(r)[1]].subs = <<Some(42)>>
    /\ workers[WorkersOf(r)[2]].subs = <<Some(43)>>

\* C4: a runAll invoked while running is set changes nothing: no tile, not the
\* flag, no worker, no run in flight, no transaction count read.
C4_GuardedCallIsNoOp ==
  [][(Len(runs') = Len(runs) + 1 /\ running)
     => /\ UNCHANGED <<tiles, running, workers, timer, nextRunIn>>
        /\ runs' = Append(runs, runs'[Len(runs')])
        /\ runs'[Len(runs')].pc = "done"
        /\ runs'[Len(runs')].reads = 0]_vars

C4_Witness ==
  /\ running
  /\ Len(runs) = 2
  /\ runs[2].mode = "skipped"
  /\ runs[1].pc # "done"
  /\ \E w \in 1..Len(workers) : workers[w].pc = "submitting"

\* C5: a worker is launched only when every worker of an earlier run has
\* returned.
C5_OneBatchInFlight ==
  [][Len(workers') > Len(workers)
     => \A w \in 1..Len(workers) :
          workers[w].run # workers'[Len(workers')].run => Returned(workers[w])]_vars

\* C6: a worker submits at most twice and the second submission has no nonce;
\* after a first submission rejected with a "nonce" message it goes to the one
\* retry; a worker whose retry was rejected too ends in failed; a worker that
\* returned left mined or failed on its tile.
C6_OneRetryWithoutNonce ==
  \A w \in 1..Len(workers) :
    Live(w) =>
      LET wk == workers[w] IN
      /\ Len(wk.subs) <= 2
      /\ Len(wk.subs) = 2 => wk.subs[2] = Undefined
      /\ (wk.first = "rejected" /\ IncludesNonce(wk.caught[1]))
         => /\ wk.pc \in {"retryDelay", "retrySubmitting", "done"}
            /\ wk.pc # "retryDelay" => Len(wk.subs) = 2
      /\ wk.pc = "done"
         => /\ wk.wrote.phase \in Terminal
            /\ TileOf(wk.id).status = wk.wrote
      /\ (wk.first = "rejected" /\ Len(wk.caught) = 2)
         => /\ wk.pc = "done"
            /\ wk.wrote.phase = "failed"

C6_Witness ==
  \E w \in 1..Len(workers) :
    /\ workers[w].pc = "done"
    /\ workers[w].first = "rejected"
    /\ workers[w].subs = <<Some(42), Undefined>>
    /\ Len(workers[w].caught) = 2
    /\ TileOf(workers[w].id).status.phase = "failed"

\* msg ends with e
Carries(msg, e) ==
  /\ Len(msg) >= Len(e)
  /\ SubSeq(msg, Len(msg) - Len(e) + 1, Len(msg)) = e

\* C7: a worker whose submission was rejected with a message without "nonce"
\* has returned without another submission, and its tile is failed with that
\* message (behind "Retry failed:" when the rejected submission was the retry).
C7_OtherErrorIsTerminal ==
  \A w \in 1..Len(workers) :
    Live(w) =>
      LET wk == workers[w] IN
      /\ (wk.first = "rejected" /\ ~IncludesNonce(wk.caught[1]))
         => /\ wk.pc = "done"
            /\ Len(wk.subs) = 1
            /\ wk.wrote = Failed(wk.caught[1])
            /\ TileOf(wk.id).status = Failed(wk.caught[1])
      /\ (Len(wk.caught) = 2 /\ ~IncludesNonce(wk.caught[2]))
         => /\ wk.pc = "done"
            /\ Len(wk.subs) = 2
            /\ TileOf(wk.id).status.phase = "failed"
            /\ Carries(TileOf(wk.id).status.error, wk.caught[2])

C7_Witness ==
  \E w \in 1..Len(workers) :
    /\ workers[w].first = "rejected"
    /\ workers[w].caught = <<UserRejected>>
    /\ workers[w].pc = "done"
    /\ TileOf(workers[w].id).status = Failed(UserRejected)

\* C8: a runAll that passes the guard while no tile is idle and every tile is
\* mined leaves no tile mined and launches for the ids 0..min(burstSize, count)-1.
C8_RecycleWhenAllMined ==
  [][(/\ Len(runs') = Len(runs) + 1
      /\ ~running
      /\ allMined(tiles))
     => /\ \A k \in 1..Len(tiles') : tiles'[k].status.phase \in {"idle", "queued"}
        /\ runs'[Len(runs')].queue = [k \in 1..Min(burstSize, Len(tiles)) |-> k - 1]]_vars

\* C9: a worker queries the receipt at most 60 times; a worker that caught the
\* not-mined error made 60 queries, got no receipt, submitted once and left its
\* tile failed with that error.
C9_PollingIsBounded ==
  \A w \in 1..Len(workers) :
    Live(w) =>
      LET wk == workers[w] IN
      /\ wk.attempt <= maxAttempts
      /\ (wk.caught # <<>> /\ wk.caught[Len(wk.caught)] = NotMined)
         => /\ wk.attempt = maxAttempts
            /\ ~wk.receipt
            /\ wk.pc = "done"
            /\ Len(wk.subs) = 1
            /\ TileOf(wk.id).status = Failed(NotMined)

C9_Witness ==
  \E w \in 1..Len(workers) :
    /\ workers[w].attempt = maxAttempts
    /\ workers[w].pc = "done"
    /\ TileOf(workers[w].id).status = Failed(NotMined)

\* C10: a worker that held a receipt in which no Roll event could be decoded
\* left its tile mined with rolled "?" and win false.
C10_UndecodableIsMined ==
  \A w \in 1..Len(workers) :
    (Live(w) /\ workers[w].decode = "none found")
    => /\ workers[w].pc = "done"
       /\ workers[w].receipt
       /\ TileOf(workers[w].id).status.phase = "mined"
       /\ TileOf(workers[w].id).status.rolled = "?"
       /\ TileOf(workers[w].id).status.win = FALSE

C10_Witness ==
  \E w \in 1..Len(workers) :
    /\ workers[w].decode = "none found"
    /\ workers[w].receipt
    /\ TileOf(workers[w].id).status.phase = "mined"
    /\ TileOf(workers[w].id).status.rolled = "?"

\* C11: a run whose transaction count read failed goes on: it launches one
\* worker per selected tile, in queue order, each submitting without a nonce;
\* the flag stays set while the run is in flight, and when the run has returned
\* every selected tile has its one worker, returned with mined or failed written.
C11_NonceFailureFallsBack ==
  \A r \in 1..Len(runs) :
    (runs[r].mode = "noncefail" /\ runs[r].queue # <<>>) =>
      /\ Len(WorkersOf(r)) = runs[r].i
      /\ \A k \in 1..Len(WorkersOf(r)) :
           LET wk == workers[WorkersOf(r)[k]] IN
           /\ wk.id = runs[r].queue[k]
           /\ wk.explicitNonce = Undefined
           /\ \A j \in 1..Len(wk.subs) : wk.subs[j] = Undefined
      /\ runs[r].pc # "done" => running
      /\ runs[r].pc = "done" =>
           /\ Len(WorkersOf(r)) = Len(runs[r].queue)
           /\ \A k \in 1..Len(WorkersOf(r)) :
                /\ workers[WorkersOf(r)[k]].pc = "done"
                /\ workers[WorkersOf(r)[k]].wrote.phase \in Terminal

C11_Witness ==
  \E r \in 1..Len(runs) :
    /\ runs[r].mode = "noncefail"
    /\ runs[r].pc = "done"
    /\ Len(runs[r].queue) = 2
    /\ ~running
    /\ TileOf(0).status.phase = "failed"
    /\ TileOf(1).status.phase = "mined"
    /\ workers[WorkersOf(r)[2]].subs = <<Undefined>>

\* the workers of run r all returned, one of them with failed written
FailedAmong(r) ==
  IF r <= Len(runs)
    THEN /\ runs[r].pc # "done"
         /\ Len(WorkersOf(r)) = Len(runs[r].queue)
         /\ \A k \in 1..Len(WorkersOf(r)) : workers[WorkersOf(r)[k]].pc = "done"
         /\ \E k \in 1..Len(WorkersOf(r)) : workers[WorkersOf(r)[k]].wrote.phase = "failed"
    ELSE FALSE

\* run r returned and the running flag is clear
Cleared(r) ==
  IF r <= Len(runs) THEN runs[r].pc = "done" /\ ~running ELSE FALSE

\* C12: the step in which a worker ends in failed changes no tile but its own,
\* no other worker, no run and not the running flag; and a run whose workers
\* all returned, one of them failed, goes on to clear the running flag.
C12_FailureIsIsolated ==
  /\ [][\A w \in 1..Len(workers) :
          (/\ workers[w].pc # "done"
           /\ workers'[w].pc = "done"
           /\ workers'[w].wrote.phase = "failed")
          => /\ \A k \in 1..Len(tiles) :
                  tiles[k].id # workers[w].id => tiles'[k] = tiles[k]
             /\ TileOf(workers[w].id).id = workers[w].id
             /\ tiles'[workers[w].id + 1].status.phase = "failed"
             /\ \A v \in 1..Len(workers) : v # w => workers'[v] = workers[v]
             /\ UNCHANGED <<runs, running>>]_vars
  /\ FailedAmong(1) ~> Cleared(1)

C12_Witness ==
  \E r \in 1..Len(runs) :
    /\ runs[r].mode = "batch"
    /\ runs[r].pc = "done"
    /\ ~running
    /\ Len(WorkersOf(r)) = 2
    /\ workers[WorkersOf(r)[1]].wrote.phase = "failed"
    /\ workers[WorkersOf(r)[2]].wrote.phase = "mined"
    /\ TileOf(0).status.phase = "failed"
    /\ TileOf(1).status.phase = "mined"

\* C13: when the auto timer invokes runAll, every worker launched by an earlier
\* run has returned.
C13_TimerRunsAfterSettled ==
  [][(Len(runs') = Len(runs) + 1 /\ runs'[Len(runs')].src = "timer")
     => \A w \in 1..Len(workers) : Returned(workers[w])]_vars

\* C14: a runAll invoked by the auto timer once every earlier worker returned,
\* mined or failed, launches at least one worker.
C14_AutoKeepsLaunching ==
  [][(/\ Len(runs') = Len(runs) + 1
      /\ runs'[Len(runs')].src = "timer"
      /\ \A w \in 1..Len(workers) : Returned(workers[w]))
     => /\ runs'[Len(runs')].mode \in Launching
        /\ running']_vars

\* the w-th runOne call has been made
Launched(w) == w <= Len(workers)

\* the w-th runOne call returned and left mined or failed on its tile
Settled(w) ==
  IF w <= Len(workers)
    THEN /\ workers[w].pc = "done"
         /\ workers[w].wrote.phase \in Terminal
         /\ TileOf(workers[w].id).status = workers[w].wrote
    ELSE FALSE

\* the r-th runAll call passed the guard and found tiles to process
Started(r) == IF r <= Len(runs) THEN runs[r].mode \in Launching ELSE FALSE

\* C15: with every timer firing and every external call returning or throwing,
\* each launched worker comes to mined or failed and each run that started
\* comes to clear the running flag, in each mode.
C15_EveryRunSettles ==
  /\ \A w \in 1..MaxTiles : Launched(w) ~> Settled(w)
  /\ Started(1) ~> Cleared(1)

C15_Witness ==
  /\ Cleared(1)
  /\ runs[1].mode = "sequential"
  /\ Len(workers) = 2
  /\ Settled(1)
  /\ Settled(2)
  /\ workers[1].wrote.phase = "failed"
  /\ workers[2].wrote.phase = "mined"

\* the statuses of the success path, in order
SuccessPath ==
  <<"queued", "preparing", "getting-gas", "building-tx", "waiting-approval",
    "submitting", "sent", "mined">>

\* C16: a worker that caught nothing and ended in mined wrote to its tile the
\* statuses queued, preparing, getting-gas, building-tx, waiting-approval,
\* submitting, sent, mined, each once and in that order.
C16_SuccessPathOrder ==
  \A w \in 1..Len(workers) :
    (/\ workers[w].pc = "done"
     /\ workers[w].caught = <<>>
     /\ workers[w].wrote.phase = "mined")
    => workers[w].trace = SuccessPath

\* the place of a status in the lifecycle order
Rank(phase) ==
  CASE phase = "idle" -> 0
    [] phase = "queued" -> 1
    [] phase = "getting-gas" -> 2
    [] phase = "building-tx" -> 3
    [] phase = "waiting-approval" -> 4
    [] phase = "submitting" -> 5
    [] phase = "sent" -> 6
    [] phase \in Terminal -> 7

Monotonic(phases) ==
  \A j \in 1..(Len(phases) - 1) :
    /\ Rank(phases[j]) <= Rank(phases[j + 1])
    /\ phases[j] \notin Terminal

\* C17: the statuses a step writes to a tile, after the status the tile had
\* (idle when the step recycles the tiles), never go back in the lifecycle
\* order, and nothing is written over mined or failed.
C17_StatusIsMonotonic ==
  [][\A w \in 1..Len(workers') :
       LET before == IF w <= Len(workers) THEN workers[w].trace ELSE <<>>
           after == workers'[w].trace
           recycles == Len(runs') > Len(runs) /\ runs'[Len(runs')].recycled
           old == IF recycles THEN "idle" ELSE TileOf(workers'[w].id).status.phase
       IN Len(after) > Len(before)
          => Monotonic(<<old>> \o SubSeq(after, Len(before) + 1, Len(after)))]_vars

\* C18: no two workers that have not returned are working on the same tile.
C18_OneWorkerPerTile ==
  \A v, w \in 1..Len(workers) :
    (v # w /\ ~Returned(workers[v]) /\ ~Returned(workers[w]))
    => workers[v].id # workers[w].id

\* C19: every tile keeps its id; the tile of each worker shows the status that
\* worker wrote last, whatever the other workers wrote in between; and a tile
\* no worker was launched for is still idle.
C19_UpdateTouchesOneTile ==
  /\ \A k \in 1..Len(tiles) : tiles[k].id = k - 1
  /\ \A w \in 1..Len(workers) :
       Live(w) => TileOf(workers[w].id).status = workers[w].wrote
  /\ \A k \in 1..Len(tiles) :
       (\A w \in 1..Len(workers) : workers[w].id # tiles[k].id)
       => tiles[k].status = Idle

C19_Witness ==
  \E v, w \in 1..Len(workers) :
    /\ workers[v].id = 0
    /\ workers[w].id = 1
    /\ workers[v].pc = "polling"
    /\ workers[w].pc = "submitting"
    /\ TileOf(0).status = Sent(TxHash(v, 1))
    /\ TileOf(1).status = Status("submitting")

\* C20: a reset leaves every tile idle and the running flag clear and changes no
\* worker; and a worker whose run saw a reset still writes each status of its
\* next step to its tile, which is then not idle.
C20_ResetDoesNotCancel ==
  [][/\ (callsLeft' < callsLeft /\ Len(runs') = Len(runs))
        => /\ \A k \in 1..Len(tiles') : tiles'[k] = [id |-> k - 1, status |-> Idle]
           /\ workers' = workers
           /\ ~running'
     /\ \A w \in 1..Len(workers) :
          (/\ runs[workers[w].run].disturbed
           /\ Len(workers'[w].trace) > Len(workers[w].trace))
          => /\ tiles'[workers[w].id + 1].status = workers'[w].wrote
             /\ tiles'[workers[w].id + 1].status.phase # "idle"]_vars

\* after the run and the reset no other runAll was called, and the worker that
\* was in flight at the reset has mined its tile
C20_Witness ==
  /\ Len(runs) = 1
  /\ Len(workers) = 1
  /\ runs[1].disturbed
  /\ callsLeft = 1
  /\ ~running
  /\ workers[1].pc = "done"
  /\ workers[1].caught = <<>>
  /\ TileOf(0).status.phase = "mined"

\* C21: a run in flight has read the transaction count once when it is a batch
\* run with client and address (its read failed or not), and never otherwise,
\* however many workers it launched and whatever they retried.
C21_OneNonceReadPerRun ==
  \A r \in 1..Len(runs) :
    /\ runs[r].mode \in {"batch", "noncefail"} =>
         /\ publicClient /\ userAddress /\ ~isSequential
         /\ runs[r].queue # <<>> => runs[r].reads = 1
    /\ runs[r].mode \in {"sequential", "noaddress", "skipped", "empty"} =>
         runs[r].reads = 0
    /\ (publicClient /\ userAddress /\ ~isSequential /\ runs[r].queue # <<>>) =>
         runs[r].reads = 1

C21_Witness ==
  \E r \in 1..Len(runs) :
    /\ runs[r].mode = "batch"
    /\ runs[r].reads = 1
    /\ Len(WorkersOf(r)) = 2
    /\ Len(workers[WorkersOf(r)[1]].subs) = 2
    /\ workers[WorkersOf(r)[2]].pc = "done"

\* C22: the workers of a run are, in launch order, the workers of the tiles of
\* its queue, one each; the ids of the queue increase; a run that returned has
\* launched them all.  Workers may return in any order (the witness).
C22_LaunchInIdOrder ==
  \A r \in 1..Len(runs) :
    runs[r].queue # <<>> =>
      /\ \A k \in 1..(Len(runs[r].queue) - 1) : runs[r].queue[k] < runs[r].queue[k + 1]
      /\ Len(WorkersOf(r)) <= Len(runs[r].queue)
      /\ \A k \in 1..Len(WorkersOf(r)) :
           /\ workers[WorkersOf(r)[k]].id = runs[r].queue[k]
           /\ workers[WorkersOf(r)[k]].trace[1] = "queued"
           /\ k > 1 => WorkersOf(r)[k - 1] < WorkersOf(r)[k]
      /\ runs[r].pc = "done" => Len(WorkersOf(r)) = Len(runs[r].queue)

\* the worker of tile 1 returned before the worker of tile 0
C22_Witness ==
  \E r \in 1..Len(runs) :
    /\ runs[r].queue = <<0, 1>>
    /\ Len(WorkersOf(r)) = 2
    /\ workers[WorkersOf(r)[1]].pc = "polling"
    /\ workers[WorkersOf(r)[2]].pc = "done"
    /\ TileOf(1).status.phase = "mined"

\* the ids of the idle tiles of ct
IdleIds(ct) == {ct[k].id : k \in {j \in 1..Len(ct) : ct[j].status.phase = "idle"}}
Ids(queue) == {queue[k] : k \in 1..Len(queue)}

\* C23: a runAll that passes the guard selects the min(burstSize, idle tiles)
\* idle tiles of lowest id (the tiles taken after the recycling when every tile
\* was mined); and while a run is in flight the tiles outside its selection get
\* no worker from it and keep their status.
C23_SelectsLowestIdle ==
  [][/\ (Len(runs') = Len(runs) + 1 /\ runs'[Len(runs')].mode # "skipped")
        => LET idle == IdleIds(IF allMined(tiles) THEN AllIdle(tiles) ELSE tiles)
               q == runs'[Len(runs')].queue
           IN /\ Cardinality(Ids(q)) = Len(q)
              /\ Len(q) = Min(burstSize, Cardinality(idle))
              /\ Ids(q) \subseteq idle
              /\ \A a \in Ids(q), b \in idle \ Ids(q) : a < b
     /\ \A r \in 1..Len(runs) :
          runs[r].pc # "done"
          => /\ \A k \in 1..Len(tiles) :
                  tiles[k].id \notin Ids(runs[r].queue) => tiles'[k] = tiles[k]
             /\ \A w \in 1..Len(workers') :
                  workers'[w].run = r => workers'[w].id \in Ids(runs[r].queue)]_vars

\* C24: in a run whose workers get no explicit nonce (sequential mode, the
\* nonce-failure fallback, the no-address fallback) at most one worker has not
\* returned.
C24_ImplicitNonceIsSequential ==
  \A r \in 1..Len(runs) :
    runs[r].mode \in {"sequential", "noncefail", "noaddress"}
    => \A j, k \in 1..Len(WorkersOf(r)) :
         (~Returned(workers[WorkersOf(r)[j]]) /\ ~Returned(workers[WorkersOf(r)[k]]))
         => j = k

\* C25: a worker that queried a receipt wrote sent before; and the latencyMs of
\* a tile mined under a returned hash is the time from the return of that hash
\* to the mined status, on the first attempt and on the retry.
C25_LatencyFromHashToMined ==
  \A w \in 1..Len(workers) :
    /\ workers[w].attempt >= 1 => workers[w].wrote.phase # "submitting"
    /\ (/\ workers[w].pc = "done"
        /\ workers[w].wrote.phase = "mined"
        /\ workers[w].txHash # Undefined)
       => workers[w].wrote.latencyMs = Some(workers[w].sinceHash)

\* C26: the tile of a worker that held a receipt without a decodable Roll event
\* is rendered as confirmed, waiting for its result.
C26_UndecodableShowsPending ==
  \A w \in 1..Len(workers) :
    (Live(w) /\ workers[w].decode = "none found")
    => isWaitingForRealResult(TileOf(workers[w].id).status)

\* the last call of the contract was rollTheDice with at least the minimum bet
Rolled == game.last.kind # "none" /\ game.last.value >= MinBet

\* the events of the last call that are Roll events
RollEvents == SelectSeq(game.last.events, LAMBDA ev : ev.name = "Roll")
WinnerEvents == SelectSeq(game.last.events, LAMBDA ev : ev.name = "Winner")

\* a call that went through: a roll in 1..6, one Roll event carrying it, 6 x
\* the bet paid and Winner emitted exactly when the roll is 3, nothing paid
\* otherwise
RolledAsStated ==
  /\ game.last.kind = "ok"
  /\ game.last.roll \in 1..6
  /\ RollEvents = <<RollEvent(game.last.value, game.last.roll)>>
  /\ game.last.roll = 3 =>
       /\ game.last.paid = 6 * game.last.value
       /\ WinnerEvents = <<WinnerEvent(6 * game.last.value)>>
       /\ game.last.after[1] = game.last.before[1] + game.last.value - 6 * game.last.value
  /\ game.last.roll # 3 =>
       /\ game.last.paid = 0
       /\ WinnerEvents = <<>>
       /\ game.last.after[1] = game.last.before[1] + game.last.value
  /\ game.last.after[2] = game.last.before[2] + 1

C28_ZeroToFiveWin ==
  (Rolled /\ game.last.kind = "ok")
  => /\ game.last.roll \in 0..6
     /\ game.last.roll \in 0..5 <=> game.last.paid > 0

\* C29: a step that changes the number of tiles to N leaves exactly N tiles
\* with ids 0..N-1, all idle, and leaves the running flag and every worker as
\* they were; a step in which a worker whose id is N or more writes a phase
\* leaves the tiles as they were.
C29_CountReallocates ==
  [][/\ Len(tiles') # Len(tiles)
        => /\ tiles' = NewTiles(Len(tiles'))
           /\ running' = running
           /\ Len(workers') = Len(workers)
           /\ \A w \in 1..Len(workers) :
                [workers'[w] EXCEPT !.reallocated = workers[w].reallocated] = workers[w]
     /\ \A w \in 1..Len(workers) :
          (/\ workers[w].id >= Len(tiles)
           /\ w <= Len(workers')
           /\ Len(workers'[w].trace) > Len(workers[w].trace))
          => tiles' = tiles]_vars

\* a worker of the second tile wrote a phase after the count went down to one,
\* the run still in flight, and the one tile left is idle
C29_Witness ==
  /\ Len(tiles) = 1
  /\ tiles = NewTiles(1)
  /\ running
  /\ \E w \in 1..Len(workers) :
       /\ workers[w].id >= Len(tiles)
       /\ workers[w].reallocated # Undefined
       /\ Len(workers[w].trace) > workers[w].reallocated[1]

\* the transaction hashes for which worker w obtained a receipt: the polling
\* loop queries the hash of the first submission and no other
ReceiptsOf(w) == IF workers[w].receipt THEN {TxHash(w, 1)} ELSE {}

\* C30: a worker that wrote mined obtained, before, a receipt for the
\* transaction hash stored in the mined status.
C30_MinedAfterReceipt ==
  \A w \in 1..Len(workers) :
    (Live(w) /\ workers[w].wrote.phase = "mined")
      => workers[w].wrote.txHash \in ReceiptsOf(w)

\* C31: a worker whose first submission returned (its tile reached sent) has
\* made that one submission and no other.
C31_NoResubmitAfterSent ==
  \A w \in 1..Len(workers) :
    (Live(w) /\ workers[w].first = "resolved") => Len(workers[w].subs) <= 1

\* C32: a worker that obtained a receipt and returned wrote mined, not failed.
C32_ReceiptEndsMined ==
  \A w \in 1..Len(workers) :
    (Live(w) /\ workers[w].receipt /\ workers[w].pc = "done")
      => /\ workers[w].wrote.phase = "mined"
         /\ TileOf(workers[w].id).status.phase = "mined"

\* the terminal phases worker w wrote, in order
TerminalWrites(w) == SelectSeq(workers[w].trace, LAMBDA ph : ph \in Terminal)

\* C33: a worker wrote one terminal phase at most; a worker that wrote one has
\* returned and wrote it last; a worker that returned wrote one; and a worker
\* that returned takes no further step (its record changes only by being
\* forgotten, and a step of its own would change it).
C33_OneTerminalWriteLast ==
  /\ [](\A w \in 1..Len(workers) :
          Live(w) =>
            /\ Len(TerminalWrites(w)) <= 1
            /\ Len(TerminalWrites(w)) = 1 <=> workers[w].pc = "done"
            /\ workers[w].pc = "done" =>
                 /\ workers[w].trace[Len(workers[w].trace)] \in Terminal
                 /\ workers[w].wrote.phase = workers[w].trace[Len(workers[w].trace)])
  /\ [][\A w \in 1..Len(workers) :
          workers[w].pc = "done" =>
            /\ w <= Len(workers')
            /\ \/ workers'[w] = workers[w]
               \/ workers'[w].pc = "forgotten"]_vars

\* a worker returned after a receipt, a "nonce" error and a retry that was
\* rejected: one failed, written last
C33_Witness ==
  \E w \in 1..Len(workers) :
    /\ workers[w].pc = "done"
    /\ workers[w].receipt
    /\ Len(workers[w].subs) = 2
    /\ workers[w].trace[Len(workers[w].trace)] = "failed"
    /\ Len(TerminalWrites(w)) = 1

\* runAll is invoked in this step
Invoked == Len(runs') = Len(runs) + 1
\* no tile is idle and some tile is not mined
NothingToRun ==
  /\ \A k \in 1..Len(tiles) : tiles[k].status.phase # "idle"
  /\ \E k \in 1..Len(tiles) : tiles[k].status.phase # "mined"

IdsArePositions(tl) == \A k \in 1..Len(tl) : tl[k].id = k - 1

\* C35: the tile ids are their positions 0..len-1 in every state; a step of a
\* run, of a worker or a reset (with the auto-recycle and every updateTile
\* among them) keeps the number of tiles and every id; updateTile with an id
\* that no tile has returns the list as it is.
C35_TileIdentity ==
  /\ [](/\ IdsArePositions(tiles)
        /\ \A id \in Len(tiles)..(Len(tiles) + 1) :
             /\ updateTile(tiles, id, Status("queued")) = tiles
             /\ updateTile(tiles, id, Failed(NotMined)) = tiles)
  /\ [][NextKeep
          => /\ Len(tiles') = Len(tiles)
             /\ \A k \in 1..Len(tiles) : tiles'[k].id = tiles[k].id]_vars

\* a worker in flight when its tile went away with a change of the count has
\* written its terminal status since, and a tile that stayed is past idle
C35_Witness ==
  /\ IdsArePositions(tiles)
  /\ \E k \in 1..Len(tiles) : tiles[k].status.phase \in {"sent", "mined", "failed"}
  /\ \E w \in 1..Len(workers) :
       /\ workers[w].id >= Len(tiles)
       /\ workers[w].pc = "done"
       /\ workers[w].reallocated # Undefined

\* the timer invokes runAll in this step
Fires == Len(runs') = Len(runs) + 1 /\ runs'[Len(runs')].src = "timer"

\* C36: an interval is armed only with auto on and the running flag not set,
\* and with auto off nothing is displayed as the next run; a countdown starts
\* at 5 and goes down by one a tick; the timer invokes runAll on the tick that
\* takes an armed countdown from 1 to 0 and on no other step, and is not armed
\* after that step (a later invocation by the timer is that of a countdown
\* armed anew).
C36_CountdownFiresOnce ==
  /\ [](/\ timer.armed => (auto /\ ~running /\ timer.seconds \in 1..AutoSeconds)
        /\ ~auto => nextRunIn = Undefined)
  /\ [][/\ timer'.armed =>
             \/ ~timer.armed /\ timer'.seconds = AutoSeconds
             \/ /\ timer.armed
                /\ timer'.tiles = timer.tiles
                /\ \/ timer'.seconds = timer.seconds
                   \/ timer'.seconds = timer.seconds - 1 /\ auto' = auto /\ running' = running
        /\ Fires => (timer.armed /\ timer.seconds = 1 /\ ~timer'.armed)
        /\ (timer.armed /\ (auto' # auto \/ running' # running)) => ~timer'.armed]_vars

\* the timer invoked the first run, that run returned, and the countdown armed
\* after it is under way
C36_Witness ==
  /\ Len(runs) = 1
  /\ runs[1].src = "timer"
  /\ runs[1].pc = "done"
  /\ auto
  /\ timer.armed
  /\ timer.seconds = 2

\* C37: a rollTheDice below the minimum bet reverts with NotEnoughEther, one
\* that rolls 3 and cannot pay 6 x the bet (too little held, or the caller
\* refuses it) reverts with "Failed to send Ether"; a call that reverts leaves
\* nonce and balance as they were and emits no event; a call that goes
\* through adds exactly one to the nonce.
C37_RevertChangesNothing ==
  [][\A value \in Bets, hash \in Hashes, accepts \in BOOLEAN :
       rollTheDice(value, hash, accepts) =>
         /\ value < MinBet => game'.last.kind = "NotEnoughEther"
         /\ (/\ value >= MinBet
             /\ hash % 6 = 2
             /\ ~accepts \/ game.balance + value < 6 * value)
              => game'.last.kind = "Failed to send Ether"
         /\ game'.last.kind \in {"NotEnoughEther", "Failed to send Ether", "ok"}
         /\ game'.last.kind # "ok" =>
              /\ game'.nonce = game.nonce
              /\ game'.balance = game.balance
              /\ game'.last.events = <<>>
              /\ game'.last.paid = 0
         /\ game'.last.kind = "ok" => game'.nonce = game.nonce + 1]_vars

\* after one roll that went through, a roll of 3 whose prize the caller
\* refused: the nonce is still one
C37_Witness ==
  /\ game.last.kind = "Failed to send Ether"
  /\ ~game.last.accepts
  /\ game.last.before[1] + game.last.value >= 6 * game.last.value
  /\ game.nonce = 1
  /\ game.last.events = <<>>

\* C38: every submission of a worker is of type legacy and carries the gas
\* limit and the gas price of the cached quote when the page had one at the
\* time the worker asked for its quote, and those of the fallback quote (gas
\* 250000) when it had none; a cached quote that was there at that time is
\* still there, with the same gas limit and gas price.
C38_SubmitsCachedQuote ==
  \A w \in 1..Len(workers) :
    \A k \in 1..Len(workers[w].gas) :
      LET sub == workers[w].gas[k]
      IN /\ sub.type = "legacy"
         /\ sub.cached # Undefined =>
              /\ sub.gas = sub.cached[1].gas
              /\ sub.gasPrice = sub.cached[1].gasPrice
              /\ cachedGasEstimate # Undefined
              /\ cachedGasEstimate[1].gas = sub.cached[1].gas
              /\ cachedGasEstimate[1].gasPrice = sub.cached[1].gasPrice
         /\ sub.cached = Undefined =>
              /\ sub.gas = 250000
              /\ sub.gasPrice = 300

\* the faces of the die that win
WinningFaces == {i \in 1..DiceSides : dice.labels[i] = dice.winFace}

\* C39: a call of roll while a roll is under way changes nothing; every roll
\* that was accepted ends, in the end, with the rolling flag cleared; the rolls
\* that ended have called onResult once each, with the label of the face chosen
\* and with isWin exactly when that label is winFace; with the default labels
\* and winFace 3 one face of the six wins.
C39_RollGuardedAndReports ==
  /\ [](/\ dice.accepted = dice.finished + (IF dice.rolling THEN 1 ELSE 0)
        /\ dice.hasOnResult => Len(dice.results) = dice.finished
        /\ \A k \in 1..Len(dice.results) :
             /\ dice.results[k].label = dice.labels[dice.results[k].faceIndex + 1]
             /\ dice.results[k].isWin <=> dice.results[k].label = dice.winFace
        /\ (dice.labels = <<1, 3, 5, 2, 4, 6>> /\ dice.winFace = 3) =>
             /\ Cardinality(WinningFaces) = 1
             /\ \A k \in 1..Len(dice.results) :
                  dice.results[k].isWin <=> dice.results[k].faceIndex = 1)
  /\ [][(dice.rolling /\ dice'.calls = dice.calls + 1)
          => dice' = [dice EXCEPT !.calls = @ + 1]]_vars
  /\ \A n \in 1..MaxThrows :
       (dice.rolling /\ dice.accepted = n) ~> (~dice.rolling /\ dice.finished = n)

\* a die with the default props was rolled, rolled again in vain while it was
\* rolling, and reported a win on the face labelled 3
C39_Witness ==
  /\ dice.labels = defaultLabels
  /\ dice.winFace = DefaultWinFace
  /\ dice.calls = 2
  /\ dice.accepted = 1
  /\ ~dice.rolling
  /\ dice.results = <<[faceIndex |-> 1, label |-> 3, isWin |-> TRUE]>>

====
